---------------------------- MODULE Spec2Model ----------------------------
(***************************************************************************)
(* A model of saltpylint/blacklist.py: the three pylint checkers           *)
(* BlacklistedImportsChecker, BlacklistedLoaderModulesUsageChecker and     *)
(* MovedTestCaseClassChecker, driven by the host's walk over one file      *)
(* after another (visit_module, one callback per node, leave_module).      *)
(*                                                                         *)
(* Strings.  A Python string is a sequence of tokens, each token a fixed   *)
(* piece of text.  Module paths, names and file paths are cut wherever the *)
(* code looks inside them: at every '.' and '/', after a leading 'salt',   *)
(* 'unittest', 'test_' and '__init__', and before '.py'.  Every such       *)
(* string of the model is cut by that one rule, so equality, startswith    *)
(* and fnmatch on token sequences decide what they decide on the           *)
(* characters.  The literal pieces of a format template are one token      *)
(* each, and str.format splices the argument's tokens between them.        *)
(***************************************************************************)
EXTENDS Naturals, Sequences, FiniteSets, TLC

VARIABLES phase, file, walked, visited, node, out, exc, loader, moved,
          fresh, freshOut

vars == <<phase, file, walked, visited, node, out, exc, loader, moved,
          fresh, freshOut>>

\* The largest number of node callbacks the walk makes in one file.
MaxNodes == 3

\* The largest number of names in one import statement and of bases in one
\* class definition.
MaxNames == 2

-----------------------------------------------------------------------------
(* Python values *)

\* None, and every other false alias: 'if name_as:' is false for both.
None == <<>>

Truthy(s) == s # <<>>

\* str.startswith(prefix)
StartsWith(s, p) == Len(p) <= Len(s) /\ SubSeq(s, 1, Len(p)) = p

\* s[i:] for 0 <= i <= len(s)
Drop(s, i) == SubSeq(s, i + 1, Len(s))

\* fnmatch.fnmatch(name, pat) on a POSIX host: the whole name against the
\* pattern, "*" matching any run of text, a '/' included.
RECURSIVE fnmatch(_, _)
fnmatch(name, pat) ==
    IF pat = <<>> THEN name = <<>>
    ELSE IF Head(pat) = "*"
         THEN \E i \in 0..Len(name) : fnmatch(Drop(name, i), Tail(pat))
         ELSE name # <<>> /\ Head(name) = Head(pat)
              /\ fnmatch(Tail(name), Tail(pat))

\* os.path.basename(path): what follows the last '/'.
RECURSIVE basename(_)
basename(path) ==
    IF \E i \in 1..Len(path) : path[i] = "/"
    THEN basename(Drop(path, CHOOSE i \in 1..Len(path) : path[i] = "/"))
    ELSE path

\* The concatenation of a sequence of sequences, in order.
RECURSIVE Flatten(_)
Flatten(ss) == IF ss = <<>> THEN <<>> ELSE Head(ss) \o Flatten(Tail(ss))

\* The two patterns of the file-name tests.
InitPattern == <<"__init__", ".py", "*">>
TestPattern == <<"test_", "*", ".py", "*">>

-----------------------------------------------------------------------------
(* The host's tree: nodes and expressions *)

Import(names) == [kind |-> "Import", modname |-> <<>>, names |-> names,
                  targets |-> <<>>, bases |-> <<>>]
ImportFrom(modname, names) == [kind |-> "ImportFrom", modname |-> modname,
                               names |-> names, targets |-> <<>>, bases |-> <<>>]
Assign(targets) == [kind |-> "Assign", modname |-> <<>>, names |-> <<>>,
                    targets |-> targets, bases |-> <<>>]
ClassDef(bases) == [kind |-> "ClassDef", modname |-> <<>>, names |-> <<>>,
                    targets |-> <<>>, bases |-> bases]
NoNode == [kind |-> "none", modname |-> <<>>, names |-> <<>>,
           targets |-> <<>>, bases |-> <<>>]

\* An expression: its astroid class, its name or attrname where the class has
\* one, and its child (expr of an attribute, value of a subscript) in sub.
Name(n) == [cls |-> "Name", name |-> n, attrname |-> <<>>, sub |-> <<>>]
AssignName(n) == [cls |-> "AssignName", name |-> n, attrname |-> <<>>, sub |-> <<>>]
Attribute(e, a) == [cls |-> "Attribute", name |-> <<>>, attrname |-> a, sub |-> <<e>>]
AssignAttr(e, a) == [cls |-> "AssignAttr", name |-> <<>>, attrname |-> a, sub |-> <<e>>]
Subscript(v) == [cls |-> "Subscript", name |-> <<>>, attrname |-> <<>>, sub |-> <<v>>]

\* Whether reading e.name, e.attrname, node.modname succeeds; it raises
\* AttributeError otherwise.
HasName(e) == e.cls \in {"Name", "AssignName"}
HasAttrname(e) == e.cls \in {"Attribute", "AssignAttr"}
HasModname(n) == n.kind = "ImportFrom"

\* One diagnostic: add_message(id, node=node, args=args).
Msg(id, args) == [id |-> id, args |-> args]

\* What a callback hands back: the checker's state after it, the diagnostics
\* it emitted in order, and the exception it raised ("none" when it returned).
Result(st, msgs, e) == [st |-> st, msgs |-> msgs, exc |-> e]

-----------------------------------------------------------------------------
(* BlacklistedImportsChecker *)

salttesting == <<"salt", "testing">>
integration == <<"integration">>
unit == <<"unit">>
mock == <<"mock">>
six == <<"six">>
distutils_version == <<"distutils", ".", "version">>
unittest == <<"unittest">>
unittest2 == <<"unittest", "2">>

\* open(): self.blacklisted_modules
blacklisted_modules ==
    <<salttesting, integration, unit, mock, six, distutils_version,
      unittest, unittest2>>

salttesting_helpers == salttesting \o <<".", "helpers">>
salttesting_mock == salttesting \o <<".", "mock">>
salttesting_parser == salttesting \o <<".", "parser">>
salttesting_case == salttesting \o <<".", "case">>
salttesting_unit == salttesting \o <<".", "unit">>
salttesting_mixins == salttesting \o <<".", "mixins">>
unittest_mock == unittest \o <<".", "mock">>
unittest2_mock == unittest2 \o <<".", "mock">>

ensure_in_syspath == <<"ensure_in_syspath">>

\* The names the code singles out in a from-import of any other module.
UnitNames ==
    {<<"TestLoader">>, <<"TextTestRunner">>, <<"TestCase">>,
     <<"expectedFailure">>, <<"TestSuite">>, <<"skipIf">>, <<"TestResult">>}
MixinNames == {<<"SaltReturnAssertsMixin">>, <<"SaltMinionEventAssertsMixin">>}
CaseNames == {<<"ModuleCase">>, <<"SyndicCase">>, <<"ShellCase">>, <<"SSHCase">>}
PathNames ==
    {<<"SYS_TMP_DIR">>, <<"TMP">>, <<"FILES">>, <<"PYEXEC">>, <<"MOCKBIN">>,
     <<"SCRIPT_DIR">>, <<"TMP_STATE_TREE">>, <<"TMP_PRODENV_STATE_TREE">>,
     <<"TMP_CONF_DIR">>, <<"TMP_SUB_MINION_CONF_DIR">>,
     <<"TMP_SYNDIC_MINION_CONF_DIR">>, <<"TMP_SYNDIC_MASTER_CONF_DIR">>,
     <<"CODE_DIR">>, <<"TESTS_DIR">>, <<"CONF_DIR">>, <<"PILLAR_DIR">>,
     <<"TMP_SCRIPT_DIR">>, <<"ENGINES_DIR">>, <<"LOG_HANDLERS_DIR">>,
     <<"INTEGRATION_TEST_DIR">>}

\* 'Please use \'from <loc> import {0}\''.format(name)
PleaseUseFrom(loc, name) ==
    <<"Please use 'from ", loc, " import ">> \o name \o <<"'">>

\* Lines 93-98: the statement's names, an aliased one as 'name as alias'.
FormatNames(names) ==
    [i \in 1..Len(names) |->
        IF Truthy(names[i][2])
        THEN names[i][1] \o <<" as ">> \o names[i][2]
        ELSE names[i][1]]

\* Lines 101-108: one name of 'from salttesting.helpers import ...'.
HelpersMsg(mod_path, name) ==
    IF name = ensure_in_syspath
    THEN Msg("blacklisted-syspath-update", <<>>)
    ELSE Msg("blacklisted-module",
             <<mod_path, PleaseUseFrom("tests.support.helpers", name)>>)

\* Lines 155-200: one name of a from-import of a module with no branch of its
\* own.
OtherNameMsg(mod_path, mod_name, name) ==
    IF name \in UnitNames
    THEN Msg("blacklisted-module",
             <<mod_path, PleaseUseFrom("tests.support.unit", name)>>)
    ELSE IF name \in MixinNames
    THEN Msg("blacklisted-module",
             <<mod_path, PleaseUseFrom("tests.support.mixins", name)>>)
    ELSE IF name \in CaseNames
    THEN Msg("blacklisted-module",
             <<mod_path, PleaseUseFrom("tests.support.case", name)>>)
    ELSE IF name = <<"run_tests">>
    THEN Msg("blacklisted-test-module-execution",
             <<<<"Please remove the 'if __name__ == \"__main__\":' section from the end of the module">>>>)
    ELSE IF mod_name \in {integration, unit}
    THEN IF name \in PathNames
         THEN Msg("blacklisted-import",
                  <<mod_path, PleaseUseFrom("tests.support.paths", name)>>)
         ELSE Msg("blacklisted-import",
                  <<mod_path, <<"Please use 'from tests.">> \o mod_path
                              \o <<" import ">> \o name \o <<"'">>>>)
    ELSE Msg("blacklisted-module",
             <<mod_path,
               <<"Please report this error to SaltStack so we can fix it: Trying to import ">>
               \o name \o <<" from ">> \o mod_path>>)

\* Lines 99-200: the try block on a node that has a modname, for one matching
\* blacklist entry: one diagnostic per formatted name.
FromMsgs(n, mod_path, mod_name) ==
    LET names == FormatNames(n.names)
        import_from_module == n.modname
        each(loc) == [i \in 1..Len(names) |->
                        Msg("blacklisted-module",
                            <<mod_path, PleaseUseFrom(loc, names[i])>>)]
    IN  IF import_from_module = salttesting_helpers
        THEN [i \in 1..Len(names) |-> HelpersMsg(mod_path, names[i])]
        ELSE IF import_from_module \in
                    {salttesting_mock, mock, unittest_mock, unittest2_mock}
        THEN [i \in 1..Len(names) |->
                Msg(IF import_from_module \in
                          {salttesting_mock, unittest_mock, unittest2_mock}
                    THEN "blacklisted-module"
                    ELSE "blacklisted-external-module",
                    <<mod_path, PleaseUseFrom("tests.support.mock", names[i])>>)]
        ELSE IF import_from_module = salttesting_parser
        THEN each("tests.support.parser")
        ELSE IF import_from_module = salttesting_case
        THEN each("tests.support.case")
        ELSE IF import_from_module = salttesting_unit
        THEN each("tests.support.unit")
        ELSE IF StartsWith(import_from_module, unittest)
                \/ StartsWith(import_from_module, unittest2)
        THEN each("tests.support.unit")
        ELSE IF import_from_module = salttesting_mixins
        THEN each("tests.support.mixins")
        ELSE IF import_from_module = six
        THEN each("salt.ext.six")
        ELSE IF import_from_module = distutils_version
        THEN each("salt.utils.versions")
        ELSE [i \in 1..Len(names) |-> OtherNameMsg(mod_path, mod_name, names[i])]

\* Lines 201-222: the AttributeError handler, reached when node.modname fails
\* (a plain import).  'name' is what the loop of line 94 left in it: the last
\* name of the statement.
FallbackMsg(n, mod_path, mod_name) ==
    LET name == n.names[Len(n.names)][1]
    IN  IF mod_name \in {integration, unit, mock, six, distutils_version,
                         unittest, unittest2}
        THEN CASE mod_name \in {integration, unit} ->
                    Msg("blacklisted-import",
                        <<mod_path, <<"Please use 'import tests.">> \o mod_name
                                    \o <<" as ">> \o mod_name \o <<"'">>>>)
               [] mod_name = mock ->
                    Msg("blacklisted-external-import",
                        <<mod_path, <<"Please use 'import tests.support.">>
                                    \o mod_name \o <<" as ">> \o mod_name
                                    \o <<"'">>>>)
               [] mod_name = six ->
                    Msg("blacklisted-external-import",
                        <<mod_path, <<"Please use 'import salt.ext.">> \o name
                                    \o <<" as ">> \o name \o <<"'">>>>)
               [] mod_name = distutils_version ->
                    Msg("blacklisted-import",
                        <<mod_path,
                          <<"Please use 'import salt.utils.versions' instead">>>>)
               [] StartsWith(mod_name, unittest) \/ StartsWith(mod_name, unittest2) ->
                    Msg("blacklisted-import",
                        <<mod_path, <<"Please use 'import tests.support.unit as ">>
                                    \o mod_name \o <<"' instead">>>>)
        ELSE Msg("blacklisted-import",
                 <<mod_path,
                   <<"Please report this error to SaltStack so we can fix it: Trying to import ">>
                   \o mod_path>>)

\* Line 92 with the '.' of the prefix test left out.
MatchesEntry_noDot(mod_path, mod_name) ==
    mod_path = mod_name \/ StartsWith(mod_path, mod_name)

\* Line 92: whether mod_path is the blacklist entry or lies under it.
MatchesEntry(mod_path, mod_name) ==
    mod_path = mod_name \/ StartsWith(mod_path, mod_name \o <<".">>)

\* _check_blacklisted_module(node, mod_path): the diagnostics, entry by entry
\* of the blacklist.
_check_blacklisted_module(n, mod_path) ==
    Flatten([k \in 1..Len(blacklisted_modules) |->
        LET mod_name == blacklisted_modules[k]
        IN  IF MatchesEntry(mod_path, mod_name)
            THEN IF HasModname(n)
                 THEN FromMsgs(n, mod_path, mod_name)
                 ELSE <<FallbackMsg(n, mod_path, mod_name)>>
            ELSE <<>>])

\* Lines 70-71 and 83-84: the test that makes a file exempt, on the path the
\* host reports.
ImportsExempt(module_filename) ==
    fnmatch(module_filename, InitPattern)
    /\ ~fnmatch(module_filename, TestPattern)

\* BlacklistedImportsChecker.visit_import(node) in the file module_filename.
Imports_visit_import(module_filename, n) ==
    IF ImportsExempt(module_filename) THEN <<>>
    ELSE Flatten([i \in 1..Len(n.names) |->
                    _check_blacklisted_module(n, n.names[i][1])])

\* BlacklistedImportsChecker.visit_importfrom(node) in the file module_filename.
Imports_visit_importfrom(module_filename, n) ==
    IF ImportsExempt(module_filename) THEN <<>>
    ELSE _check_blacklisted_module(n, n.modname)

-----------------------------------------------------------------------------
(* BlacklistedLoaderModulesUsageChecker *)

salt == <<"salt">>

\* open(): self.salt_dunders
salt_dunders ==
    {<<"__opts__">>, <<"__salt__">>, <<"__runner__">>, <<"__context__">>,
     <<"__utils__">>, <<"__ext_pillar__">>, <<"__thorium__">>, <<"__states__">>,
     <<"__serializers__">>, <<"__ret__">>, <<"__grains__">>, <<"__pillar__">>,
     <<"__sdb__">>, <<"__proxy__">>, <<"__low__">>, <<"__orchestration_jid__">>,
     <<"__running__">>, <<"__intance_id__">>, <<"__lowstate__">>, <<"__env__">>}

\* The empty dict, and d[k] = v.
EmptyDict == <<>>
Put(d, k, v) == [x \in DOMAIN d \cup {k} |-> IF x = k THEN v ELSE d[x]]

\* open(): the checker's state before any file.
Loader_open == [process_module |-> FALSE, imported_salt_modules |-> EmptyDict]

\* Lines 266 and 381: whether the file's base name is that of a test module.
IsTestFile(module_filename) == fnmatch(basename(module_filename), TestPattern)

\* visit_module(node)
Loader_visit_module(st, module_filename) ==
    IF ~IsTestFile(module_filename) THEN st
    ELSE [st EXCEPT !.process_module = TRUE]

\* leave_module(node) with the reset of the alias table left out.
Loader_leave_module_keepsAliases(st) ==
    IF st.process_module THEN [st EXCEPT !.process_module = FALSE] ELSE st

\* leave_module(node)
Loader_leave_module(st) ==
    IF st.process_module
    THEN [process_module |-> FALSE, imported_salt_modules |-> EmptyDict]
    ELSE st

\* Lines 282-289: the loop of visit_import over node.names, on the dict d.
RECURSIVE StoreImports(_, _)
StoreImports(names, d) ==
    IF names = <<>> THEN d
    ELSE LET module == Head(names)[1]
             import_as == Head(names)[2]
         IN  IF ~StartsWith(module, salt) THEN StoreImports(Tail(names), d)
             ELSE IF Truthy(import_as) /\ import_as \notin DOMAIN d
             THEN StoreImports(Tail(names), Put(d, import_as, module))
             ELSE IF module \notin DOMAIN d
             THEN StoreImports(Tail(names), Put(d, module, module))
             ELSE StoreImports(Tail(names), d)

\* visit_import(node)
Loader_visit_import(st, n) ==
    IF st.process_module
    THEN [st EXCEPT !.imported_salt_modules = StoreImports(n.names, @)]
    ELSE st

\* Lines 298-303: the loop of visit_importfrom over node.names, on the dict d.
RECURSIVE StoreFromImports(_, _)
StoreFromImports(names, d) ==
    IF names = <<>> THEN d
    ELSE LET module == Head(names)[1]
             import_as == Head(names)[2]
         IN  IF Truthy(import_as) /\ import_as \notin DOMAIN d
             THEN StoreFromImports(Tail(names), Put(d, import_as, import_as))
             ELSE IF module \notin DOMAIN d
             THEN StoreFromImports(Tail(names), Put(d, module, module))
             ELSE StoreFromImports(Tail(names), d)

\* visit_importfrom(node)
Loader_visit_importfrom(st, n) ==
    IF st.process_module /\ StartsWith(n.modname, salt)
    THEN [st EXCEPT !.imported_salt_modules = StoreFromImports(n.names, @)]
    ELSE st

\* Lines 312-323: visit_assign on a subscript target.  "fall" stands for
\* falling through to line 325.
AssignSubscript(st, node_left) ==
    LET value == node_left.sub[1]
        d == st.imported_salt_modules
    IN  IF value.cls # "Attribute" THEN Result(st, <<>>, "none")
        ELSE IF value.attrname \in salt_dunders
        THEN IF ~HasName(value.sub[1])
             THEN Result(st, <<>>, "AttributeError")
             ELSE IF value.sub[1].name \notin DOMAIN d
             THEN Result(st, <<>>, "KeyError")
             ELSE Result(st, <<Msg("unmocked-patch-dunder-update",
                                   <<value.attrname, d[value.sub[1].name]>>)>>,
                         "none")
        ELSE Result(st, <<>>, "fall")

\* Lines 325-354 with the return of line 346 left out: a reserved attribute
\* goes on to the message for any attribute.
AssignAttribute_noReturn(st, node_left) ==
    LET d == st.imported_salt_modules
        args == <<node_left.attrname, d[node_left.sub[1].name]>>
    IN  IF node_left.cls # "AssignAttr" THEN Result(st, <<>>, "none")
        ELSE IF ~HasName(node_left.sub[1]) THEN Result(st, <<>>, "none")
        ELSE IF node_left.sub[1].name \notin DOMAIN d
        THEN Result(st, <<>>, "none")
        ELSE IF node_left.attrname \in salt_dunders
        THEN Result(st, <<Msg("unmocked-patch-dunder", args),
                          Msg("unmocked-patch", args)>>, "none")
        ELSE Result(st, <<Msg("unmocked-patch", args)>>, "none")

\* Lines 325-354: visit_assign from the AssignAttr test on.
AssignAttribute(st, node_left) ==
    LET d == st.imported_salt_modules
    IN  IF node_left.cls # "AssignAttr" THEN Result(st, <<>>, "none")
        ELSE IF ~HasName(node_left.sub[1]) THEN Result(st, <<>>, "none")
        ELSE IF node_left.sub[1].name \notin DOMAIN d
        THEN Result(st, <<>>, "none")
        ELSE IF node_left.attrname \in salt_dunders
        THEN Result(st, <<Msg("unmocked-patch-dunder",
                              <<node_left.attrname, d[node_left.sub[1].name]>>)>>,
                    "none")
        ELSE Result(st, <<Msg("unmocked-patch",
                              <<node_left.attrname, d[node_left.sub[1].name]>>)>>,
                    "none")

\* visit_assign(node)
Loader_visit_assign(st, n) ==
    IF ~st.process_module THEN Result(st, <<>>, "none")
    ELSE LET node_left == n.targets[1]
             r == IF node_left.cls = "Subscript"
                  THEN AssignSubscript(st, node_left)
                  ELSE Result(st, <<>>, "fall")
         IN  IF r.exc = "fall" THEN AssignAttribute(st, node_left) ELSE r

-----------------------------------------------------------------------------
(* MovedTestCaseClassChecker *)

tests_integration == <<"tests", ".", "integration">>

\* open(): the checker's state before any file.
Moved_open == [process_module |-> FALSE]

\* visit_module(node)
Moved_visit_module(st, module_filename) ==
    IF ~IsTestFile(module_filename) THEN st
    ELSE [st EXCEPT !.process_module = TRUE]

\* leave_module(node)
Moved_leave_module(st) ==
    IF st.process_module THEN [process_module |-> FALSE] ELSE st

\* _check_moved_imports(node, module, import_as): one diagnostic for every
\* name of the statement that is a relocated class, whatever module and
\* import_as are.
_check_moved_imports(n, module, import_as) ==
    LET hits == SelectSeq(n.names, LAMBDA p : p[1] \in CaseNames)
    IN  [i \in 1..Len(hits) |->
            Msg("moved-test-case-class",
                <<IF Truthy(hits[i][2])
                  THEN <<"Please use 'from ", "tests.support.case", " import ">>
                       \o hits[i][1] \o <<" as ">> \o hits[i][2] \o <<"'">>
                  ELSE PleaseUseFrom("tests.support.case", hits[i][1])>>)]

\* visit_importfrom(node): the diagnostics.
Moved_visit_importfrom(st, n) ==
    IF st.process_module /\ StartsWith(n.modname, tests_integration)
    THEN Flatten([i \in 1..Len(n.names) |->
                    _check_moved_imports(n, n.names[i][1], n.names[i][2])])
    ELSE <<>>

\* The local msg of visit_classdef before its first assignment.
Unbound == <<"<unbound local>">>

\* Lines 406-409: the loop of visit_classdef over the bases left, msg being
\* the local's value and msgs the diagnostics emitted so far.
RECURSIVE ClassdefLoop(_, _, _, _)
ClassdefLoop(st, bases, msg, msgs) ==
    IF bases = <<>> THEN Result(st, msgs, "none")
    ELSE LET base == Head(bases)
         IN  IF ~HasAttrname(base) THEN Result(st, msgs, "AttributeError")
             ELSE LET msg2 == IF base.attrname \in CaseNames
                              THEN PleaseUseFrom("tests.support.case", base.attrname)
                              ELSE msg
                  IN  IF msg2 = Unbound
                      THEN Result(st, msgs, "UnboundLocalError")
                      ELSE ClassdefLoop(st, Tail(bases), msg2,
                               Append(msgs, Msg("moved-test-case-class", <<msg2>>)))

\* visit_classdef(node)
Moved_visit_classdef(st, n) == ClassdefLoop(st, n.bases, Unbound, <<>>)

-----------------------------------------------------------------------------
(* The files and nodes the host walks *)

testmod == <<"testmod">>
test == <<"test">>
self == <<"self">>
salt_modules == <<"salt", ".", "modules">>
salt_modules_test == salt_modules \o <<".", "test">>
ModuleCase == <<"ModuleCase">>
opts == <<"__opts__">>
foo == <<"foo">>

\* '__init__.py', 'salt/__init__.py', 'tests/test_a.py', 'mod.py'
Files ==
    {<<"__init__", ".py">>, <<"salt", "/", "__init__", ".py">>,
     <<"tests", "/", "test_", "a", ".py">>, <<"mod", ".py">>}

\* The sequences over S of 1 to MaxNames elements.
NameLists(S) == UNION {[1..k -> S] : k \in 1..MaxNames}

\* import six / unittest2 / salt.modules.test as testmod / salt as testmod, ...
ImportNodes ==
    {Import(names) :
        names \in NameLists({<<six, None>>, <<unittest2, None>>,
                             <<salt_modules_test, testmod>>, <<salt, testmod>>})}

\* from salttesting.helpers / salt.modules / tests.integration import ...
ImportFromNodes ==
    {ImportFrom(salttesting_helpers, names) :
        names \in NameLists({<<ensure_in_syspath, None>>,
                             <<ensure_in_syspath, testmod>>, <<test, None>>})}
    \cup {ImportFrom(salt_modules, names) :
        names \in NameLists({<<test, testmod>>, <<test, None>>})}
    \cup {ImportFrom(tests_integration, names) :
        names \in NameLists({<<ModuleCase, None>>, <<test, None>>})}

\* x.attr = v, x.y.attr = v, x.attr[k] = v, x.y.attr[k] = v, x[k] = v, x = v
AssignTargets ==
    {AssignAttr(Name(x), a) : x \in {testmod, self}, a \in {opts, foo}}
    \cup {Subscript(Attribute(Name(x), a)) : x \in {testmod, self}, a \in {opts, foo}}
    \cup {AssignAttr(Attribute(Name(self), testmod), opts),
          Subscript(Attribute(Attribute(Name(self), testmod), opts)),
          Subscript(Name(testmod)), AssignName(testmod)}

AssignNodes == {Assign(<<t>>) : t \in AssignTargets}

\* class A(...): the bases object, integration.ModuleCase, integration.Other
ClassBases ==
    {Name(<<"object">>), Attribute(Name(integration), ModuleCase),
     Attribute(Name(integration), <<"Other">>)}

ClassDefNodes == {ClassDef(bases) : bases \in {<<>>} \cup NameLists(ClassBases)}

-----------------------------------------------------------------------------
(* The host's walk.  walked records whether some file has been walked to its
   end; the other variables are the host's position, the checkers' state and
   what the last callbacks emitted. *)

NoOut == [imports |-> <<>>, loader |-> <<>>, moved |-> <<>>]
NoFreshOut == [loader |-> <<>>, moved |-> <<>>]

Init ==
    /\ phase = "idle"
    /\ file = <<>>
    /\ walked = FALSE
    /\ visited = 0
    /\ node = NoNode
    /\ out = NoOut
    /\ exc = "none"
    /\ loader = Loader_open
    /\ moved = Moved_open
    /\ fresh = [loader |-> Loader_open, moved |-> Moved_open]
    /\ freshOut = NoFreshOut

\* The host starts on a file: every checker's visit_module.  fresh is a
\* second pair of checkers, opened anew for this file and walked over the
\* same nodes.
VisitModule(f) ==
    /\ phase = "idle" /\ exc = "none"
    /\ phase' = "infile"
    /\ file' = f
    /\ visited' = 0
    /\ node' = NoNode
    /\ out' = NoOut
    /\ loader' = Loader_visit_module(loader, f)
    /\ moved' = Moved_visit_module(moved, f)
    /\ fresh' = [loader |-> Loader_visit_module(Loader_open, f),
                 moved |-> Moved_visit_module(Moved_open, f)]
    /\ freshOut' = NoFreshOut
    /\ UNCHANGED <<exc, walked>>

\* The guard of every node callback: inside a file, no exception so far.
Walking == phase = "infile" /\ exc = "none" /\ visited < MaxNodes

\* The host reaches an import statement.
VisitImport(n) ==
    /\ Walking
    /\ node' = n
    /\ visited' = visited + 1
    /\ out' = [imports |-> Imports_visit_import(file, n),
               loader |-> <<>>, moved |-> <<>>]
    /\ loader' = Loader_visit_import(loader, n)
    /\ fresh' = [fresh EXCEPT !.loader = Loader_visit_import(@, n)]
    /\ freshOut' = NoFreshOut
    /\ UNCHANGED <<phase, file, walked, exc, moved>>

\* The host reaches a from-import statement.
VisitImportFrom(n) ==
    /\ Walking
    /\ node' = n
    /\ visited' = visited + 1
    /\ out' = [imports |-> Imports_visit_importfrom(file, n),
               loader |-> <<>>,
               moved |-> Moved_visit_importfrom(moved, n)]
    /\ loader' = Loader_visit_importfrom(loader, n)
    /\ fresh' = [fresh EXCEPT !.loader = Loader_visit_importfrom(@, n)]
    /\ freshOut' = [loader |-> <<>>,
                    moved |-> Moved_visit_importfrom(fresh.moved, n)]
    /\ UNCHANGED <<phase, file, walked, exc, moved>>

\* The host reaches an assignment.
VisitAssign(n) ==
    /\ Walking
    /\ node' = n
    /\ visited' = visited + 1
    /\ out' = [imports |-> <<>>,
               loader |-> Loader_visit_assign(loader, n).msgs,
               moved |-> <<>>]
    /\ exc' = Loader_visit_assign(loader, n).exc
    /\ freshOut' = [loader |-> Loader_visit_assign(fresh.loader, n).msgs,
                    moved |-> <<>>]
    /\ UNCHANGED <<phase, file, walked, loader, moved, fresh>>

\* The host reaches a class definition.
VisitClassDef(n) ==
    /\ Walking
    /\ node' = n
    /\ visited' = visited + 1
    /\ out' = [imports |-> <<>>, loader |-> <<>>,
               moved |-> Moved_visit_classdef(moved, n).msgs]
    /\ exc' = Moved_visit_classdef(moved, n).exc
    /\ freshOut' = [loader |-> <<>>,
                    moved |-> Moved_visit_classdef(fresh.moved, n).msgs]
    /\ UNCHANGED <<phase, file, walked, loader, moved, fresh>>

\* The host has walked the file: every checker's leave_module.
LeaveModule ==
    /\ phase = "infile" /\ exc = "none"
    /\ phase' = "idle"
    /\ file' = <<>>
    /\ walked' = TRUE
    /\ visited' = 0
    /\ node' = NoNode
    /\ out' = NoOut
    /\ freshOut' = NoFreshOut
    /\ loader' = Loader_leave_module(loader)
    /\ moved' = Moved_leave_module(moved)
    /\ fresh' = [loader |-> Loader_open, moved |-> Moved_open]
    /\ UNCHANGED exc

Next ==
    \/ \E f \in Files : VisitModule(f)
    \/ \E n \in ImportNodes : VisitImport(n)
    \/ \E n \in ImportFromNodes : VisitImportFrom(n)
    \/ \E n \in AssignNodes : VisitAssign(n)
    \/ \E n \in ClassDefNodes : VisitClassDef(n)
    \/ LeaveModule

Spec == Init /\ [][Next]_vars

-----------------------------------------------------------------------------
(* Properties *)

\* A package initializer that is not a test module, by its base name.
InitializerFile(f) ==
    fnmatch(basename(f), InitPattern) /\ ~fnmatch(basename(f), TestPattern)

\* A test module, by its base name.
TestFile(f) == fnmatch(basename(f), TestPattern)

\* Whether module path X is a blacklist entry or has one as a dotted prefix.
Blacklisted(X) ==
    \E k \in 1..Len(blacklisted_modules) :
        \/ X = blacklisted_modules[k]
        \/ /\ Len(X) > Len(blacklisted_modules[k])
           /\ SubSeq(X, 1, Len(blacklisted_modules[k]) + 1)
                = Append(blacklisted_modules[k], ".")

AtImport == phase = "infile" /\ node.kind \in {"Import", "ImportFrom"}

\* C1: in a package-initializer file that is not a test file, whatever
\* directory precedes its base name, the import classifier's visit_import and
\* visit_importfrom emit nothing.
C1_InitializerExempt ==
    (AtImport /\ InitializerFile(file)) => out.imports = <<>>

\* C2 as stated: in a non-exempt file every import statement, 'import X' or
\* 'from X import n1, ..., nk' for any k, yields exactly one diagnostic when X
\* is blacklisted and none when it is not.
C2_OnePerStatement ==
    (AtImport /\ ~InitializerFile(file)
        /\ (node.kind = "ImportFrom" \/ Len(node.names) = 1))
    => LET X == IF node.kind = "ImportFrom" THEN node.modname
                ELSE node.names[1][1]
       IN  Len(out.imports) = IF Blacklisted(X) THEN 1 ELSE 0

\* C2 as amended: in a file the classifier does not exempt, 'from X import
\* n1, ..., nk' yields exactly k diagnostics when X is blacklisted and none
\* when it is not, and 'import m1, ..., mj' yields exactly one diagnostic for
\* each listed mi that is blacklisted.
C2_OnePerName ==
    (AtImport /\ ~ImportsExempt(file))
    => IF node.kind = "ImportFrom"
       THEN Len(out.imports) =
                IF Blacklisted(node.modname) THEN Len(node.names) ELSE 0
       ELSE Len(out.imports) =
                Cardinality({i \in 1..Len(node.names) :
                                Blacklisted(node.names[i][1])})

\* C2's case: a blacklisted from-import of two names, answered by two
\* diagnostics.
C2_Witness ==
    /\ AtImport /\ ~ImportsExempt(file)
    /\ node.kind = "ImportFrom" /\ Blacklisted(node.modname)
    /\ Len(node.names) = 2 /\ Len(out.imports) = 2

\* C3: in a non-exempt file, 'from salttesting.helpers import ...' yields for
\* each imported name ensure_in_syspath, aliased or not, one
\* blacklisted-syspath-update, and for every other name one blacklisted-module
\* suggesting 'from tests.support.helpers import <name>'.
C3_SyspathForbidden ==
    (AtImport /\ ~InitializerFile(file)
        /\ node.kind = "ImportFrom" /\ node.modname = salttesting_helpers)
    => /\ Len(out.imports) = Len(node.names)
       /\ \A i \in 1..Len(node.names) :
            IF node.names[i][1] = ensure_in_syspath
            THEN out.imports[i].id = "blacklisted-syspath-update"
            ELSE out.imports[i] =
                    Msg("blacklisted-module",
                        <<node.modname,
                          PleaseUseFrom("tests.support.helpers",
                                        FormatNames(node.names)[i])>>)

AtAssign == phase = "infile" /\ TestFile(file) /\ node.kind = "Assign"

\* The identifier an assignment target's attribute is taken from ('A' of
\* 'A.attr = v' and of 'A.attr[k] = v'), or None when the target has no such
\* plain identifier.
TargetBase(t) ==
    IF t.cls = "AssignAttr" /\ t.sub[1].cls = "Name" THEN t.sub[1].name
    ELSE IF t.cls = "Subscript" /\ t.sub[1].cls = "Attribute"
            /\ t.sub[1].sub[1].cls = "Name"
    THEN t.sub[1].sub[1].name
    ELSE None

\* The attribute an assignment target names ('attr' above), or None.
TargetAttr(t) ==
    IF t.cls = "AssignAttr" THEN t.attrname
    ELSE IF t.cls = "Subscript" /\ t.sub[1].cls = "Attribute"
    THEN t.sub[1].attrname
    ELSE None

\* C4: in a test file, once imports have put identifier A in the alias table,
\* 'A.attr = v' emits exactly one diagnostic, unmocked-patch-dunder for a
\* reserved attr and unmocked-patch otherwise, and 'A.attr[k] = v' with a
\* reserved attr emits exactly one unmocked-patch-dunder-update, each with the
\* arguments (attr, alias table value of A).
C4_TrackedAliasFlagged ==
    AtAssign =>
        LET t == node.targets[1]
            A == TargetBase(t)
            d == loader.imported_salt_modules
        IN  (A # None /\ A \in DOMAIN d) =>
              /\ t.cls = "AssignAttr" =>
                    /\ exc = "none"
                    /\ out.loader =
                        <<Msg(IF t.attrname \in salt_dunders
                              THEN "unmocked-patch-dunder"
                              ELSE "unmocked-patch",
                              <<t.attrname, d[A]>>)>>
              /\ (t.cls = "Subscript" /\ TargetAttr(t) \in salt_dunders) =>
                    /\ exc = "none"
                    /\ out.loader =
                        <<Msg("unmocked-patch-dunder-update",
                              <<TargetAttr(t), d[A]>>)>>

\* C4's case: after 'import salt.modules.test as testmod', the assignment
\* testmod.__opts__[k] = v is answered by the one update diagnostic.
C4_Witness ==
    /\ AtAssign
    /\ node.targets[1] = Subscript(Attribute(Name(testmod), opts))
    /\ testmod \in DOMAIN loader.imported_salt_modules
    /\ out.loader = <<Msg("unmocked-patch-dunder-update",
                          <<opts, salt_modules_test>>)>>

\* C5: in a test file, visit_assign on 'x.attr = v' or 'x.attr[k] = v' whose
\* base is an identifier absent from the alias table, or no plain identifier,
\* returns without raising and emits nothing.
C5_UntrackedBaseSkipped ==
    AtAssign =>
        LET t == node.targets[1]
            A == TargetBase(t)
        IN  (TargetAttr(t) # None
                /\ (A = None \/ A \notin DOMAIN loader.imported_salt_modules))
            => (exc = "none" /\ out.loader = <<>>)

\* Whether import node n is tracked by the loader checker, and binds only
\* aliases that are keys of the dict d already.
RebindsOnly(n, d) ==
    /\ n.kind \in {"Import", "ImportFrom"}
    /\ n.kind = "ImportFrom" => StartsWith(n.modname, salt)
    /\ \A i \in 1..Len(n.names) :
        /\ n.kind = "Import" => StartsWith(n.names[i][1], salt)
        /\ Truthy(n.names[i][2])
        /\ n.names[i][2] \in DOMAIN d

\* C6: in a test file, a tracked import whose aliases are all keys of the
\* alias table already leaves the table as it was: no mapping changes and no
\* key is added.
C6_RebindingLeavesTable ==
    [][(phase = "infile" /\ TestFile(file) /\ visited' = visited + 1
            /\ RebindsOnly(node', loader.imported_salt_modules))
       => loader'.imported_salt_modules = loader.imported_salt_modules]_vars

\* The module path the first name of import node n stands for.
CanonicalPath(n) ==
    IF n.kind = "ImportFrom" THEN n.modname \o <<".">> \o n.names[1][1]
    ELSE n.names[1][1]

\* C7: in a test file, the entry a tracked import creates for a new alias maps
\* it to the canonical dotted path of the module imported, for plain and from
\* imports alike.
C7_CanonicalModulePath ==
    [][(phase = "infile" /\ TestFile(file) /\ visited' = visited + 1
            /\ node'.kind \in {"Import", "ImportFrom"}
            /\ StartsWith(CanonicalPath(node'), salt)
            /\ Truthy(node'.names[1][2])
            /\ node'.names[1][2] \notin DOMAIN loader.imported_salt_modules)
       => /\ node'.names[1][2] \in DOMAIN loader'.imported_salt_modules
          /\ loader'.imported_salt_modules[node'.names[1][2]]
                = CanonicalPath(node')]_vars

\* C8: in a file that is no test file, the relocated-class checker emits
\* nothing, for from-imports and class definitions alike.
C8_NonTestFileSilent ==
    (phase = "infile" /\ ~TestFile(file)) => out.moved = <<>>

\* C9: a class definition with a base 'module.C', C a relocated class, at any
\* position among its bases, does not fail and emits a diagnostic suggesting
\* 'from tests.support.case import C'.
C9_RelocatedBaseFlagged ==
    (phase = "infile" /\ TestFile(file) /\ node.kind = "ClassDef")
    => \A i \in 1..Len(node.bases) :
          (node.bases[i].cls = "Attribute"
              /\ node.bases[i].attrname \in CaseNames)
          => /\ exc = "none"
             /\ \E j \in 1..Len(out.moved) :
                    out.moved[j] =
                        Msg("moved-test-case-class",
                            <<PleaseUseFrom("tests.support.case",
                                            node.bases[i].attrname)>>)

\* C10: over any sequence of completed walks, what the loader checker and
\* the relocated-class checker emit in a file is what checkers opened anew
\* for that file emit on the same nodes, and between files the alias table
\* is empty and both processing flags are off.
C10_FileLocal ==
    /\ out.loader = freshOut.loader
    /\ out.moved = freshOut.moved
    /\ phase = "idle" =>
        /\ ~loader.process_module
        /\ loader.imported_salt_modules = EmptyDict
        /\ ~moved.process_module

\* C10's case: in a test file walked after another file, an assignment to a
\* tracked alias is flagged.
C10_Witness ==
    /\ walked /\ phase = "infile" /\ TestFile(file)
    /\ node.kind = "Assign" /\ out.loader # <<>>
    /\ out.loader = freshOut.loader

\* The imported names of node n that are relocated test case classes.
RelocatedNames(n) == {i \in 1..Len(n.names) : n.names[i][1] \in CaseNames}

\* C11: in a test file, 'from M import n1 [as a1], ..., nk [as ak]' with M
\* starting with 'tests.integration' yields as many moved-test-case-class
\* diagnostics as there are relocated names among n1..nk, however many other
\* names the statement imports.
C11_OnePerRelocatedName ==
    (phase = "infile" /\ TestFile(file) /\ node.kind = "ImportFrom"
        /\ StartsWith(node.modname, tests_integration))
    => Len(out.moved) = Cardinality(RelocatedNames(node))

\* C12: in a non-exempt file, the diagnostics of a plain 'import m1, ..., mk'
\* are, name by name, those of 'import mi' alone: the kind and text for a
\* matched mi do not depend on the other names listed, and a matched six
\* suggests 'import salt.ext.six as six' at any position.
C12_RootDecidesMessage ==
    (AtImport /\ ~InitializerFile(file) /\ node.kind = "Import")
    => /\ out.imports =
            Flatten([i \in 1..Len(node.names) |->
                Imports_visit_import(file, Import(<<node.names[i]>>))])
       /\ \A i \in 1..Len(node.names) :
            node.names[i][1] = six =>
                \E j \in 1..Len(out.imports) :
                    out.imports[j] =
                        Msg("blacklisted-external-import",
                            <<six, <<"Please use 'import salt.ext.">> \o six
                                   \o <<" as ">> \o six \o <<"'">>>>)

=============================================================================
